---- MODULE Spec2Model ----
(***************************************************************************)
(* Model of poll_eta.py: a one-shot ETA logger.  One invocation reads the  *)
(* local clock, passes the time-window gate, posts one request to the      *)
(* routing service, converts the first route to a row and appends the row  *)
(* to eta_log.csv, writing the header first when the file is absent.       *)
(*                                                                         *)
(* Text the program inspects character by character (duration strings) is  *)
(* a sequence of one-character strings; other text is an opaque string.    *)
(* Floats the program rounds are kept as scaled integers: minutes in       *)
(* tenths, miles in hundredths, metres in hundredths (centimetres).        *)
(* The log file is a sequence of CSV records, each a sequence of the       *)
(* field texts csv.DictWriter writes.                                      *)
(***************************************************************************)
EXTENDS Integers, Sequences, FiniteSets, TLC

VARIABLES
    file_exists,   \* os.path.exists(log_path)
    file_lines,    \* the CSV records of eta_log.csv, in file order
    pc,            \* pc[p]: position of invocation p in the script
    local_time,    \* local_time[p]: the clock reading of line 62
    data,          \* data[p]: the response to the request of line 47
    row,           \* row[p]: the dict of lines 83-91
    write_header,  \* write_header[p]: the flag of line 93
    console,       \* console[p]: what the invocation printed, in order
    http_calls,    \* http_calls[p]: requests.post calls of the invocation
    exit_status,   \* exit_status[p]: -1 while running, else the exit code
    runs,          \* invocations started so far
    logged,        \* invocations that completed the append (history)
    absent_seen,   \* existence checks that found the file absent (history)
    lines0,        \* lines0[p]: file_lines when invocation p started (history)
    exists0        \* exists0[p]: file_exists when invocation p started (history)

vars == <<file_exists, file_lines, pc, local_time, data, row, write_header,
          console, http_calls, exit_status, runs, logged, absent_seen, lines0,
          exists0>>

\* ------------------------------------------------------------------ bounds
MaxRuns == 3
MaxConcRuns == 2
Procs == {1, 2}

\* --------------------------------------------------------- configuration
ORIGIN == "267 Princeton St, Boston, MA"
DESTINATION == "425 Waverley Oaks Rd #250, Waltham, MA 02452"
WINDOW_START == 5
WINDOW_END == 20
METERS_PER_MILE_CM == 160934

\* ------------------------------------------------------------ the clock
Times == { [hour |-> 4, minute |-> 59], [hour |-> 5, minute |-> 0],
           [hour |-> 19, minute |-> 59], [hour |-> 20, minute |-> 0],
           [hour |-> 0, minute |-> 0], [hour |-> 23, minute |-> 59] }

NoTime == [hour |-> 0, minute |-> 0]

within_window_late(t) == WINDOW_START <= t.hour /\ t.hour <= WINDOW_END

within_window(t) == WINDOW_START <= t.hour /\ t.hour < WINDOW_END

Pad2(n) == IF n < 10 THEN "0" \o ToString(n) ELSE ToString(n)

\* f"{local_time:%H:%M}"
HHMM(t) == Pad2(t.hour) \o ":" \o Pad2(t.minute)

\* local_time.isoformat(timespec="seconds"); the date and the UTC offset are
\* the same text in every reading of the model's clock
isoformat(t) == "2025-01-06T" \o HHMM(t) \o ":00-05:00"

\* ------------------------------------------------------ duration parsing
Digits == <<"0", "1", "2", "3", "4", "5", "6", "7", "8", "9">>

IsDigit(c) == \E i \in 1..10 : Digits[i] = c

DigitVal(c) == (CHOOSE i \in 1..10 : Digits[i] = c) - 1

\* the value of a sequence of decimal digits (0 for the empty sequence)
RECURSIVE DigitsVal(_)
DigitsVal(cs) ==
    IF cs = <<>> THEN 0
    ELSE 10 * DigitsVal(SubSeq(cs, 1, Len(cs) - 1)) + DigitVal(cs[Len(cs)])

\* the index of the first "." of cs, or Len(cs) + 1
DotAt(cs) ==
    IF \E i \in 1..Len(cs) : cs[i] = "."
    THEN CHOOSE i \in 1..Len(cs) : cs[i] = "." /\ \A j \in 1..(i - 1) : cs[j] # "."
    ELSE Len(cs) + 1

\* int(float(cs)) for text over digits, "." and other characters: float()
\* accepts digits with at most one "." and at least one digit, and raises
\* ValueError on anything else; int() truncates to the integral part.
IntOfFloat(cs) ==
    LET dot  == DotAt(cs)
        ip   == SubSeq(cs, 1, dot - 1)
        fp   == SubSeq(cs, dot + 1, Len(cs))
        good == /\ \A i \in 1..Len(ip) : IsDigit(ip[i])
                /\ \A i \in 1..Len(fp) : IsDigit(fp[i])
                /\ Len(ip) + Len(fp) > 0
    IN  IF good THEN [raised |-> FALSE, value |-> DigitsVal(ip)]
        ELSE [raised |-> TRUE, value |-> 0]

\* line 53
format_duration(proto_str) ==
    IF Len(proto_str) > 0 /\ proto_str[Len(proto_str)] = "s"
    THEN IntOfFloat(SubSeq(proto_str, 1, Len(proto_str) - 1))
    ELSE [raised |-> FALSE, value |-> 0]

\* ----------------------------------------------------------- conversions
\* Whole seconds below 1000 whose minutes lie exactly halfway between two
\* tenths and for which round(seconds / 60, 1) goes up: the double nearest
\* seconds / 60 lies above the halfway point (or is the halfway point and the
\* lower tenth is odd).  Every other halfway case goes down.
TiesRoundedUp ==
    {
      3, 27, 33, 39, 45, 63, 81, 93, 105, 111, 141, 147, 165, 171, 177,
      201, 207, 225, 231, 237, 249, 267, 279, 285, 297, 309, 327, 339,
      345, 357, 369, 387, 399, 405, 417, 429, 447, 459, 465, 477, 483,
      489, 513, 519, 525, 543, 549, 573, 579, 585, 603, 609, 633, 639,
      645, 663, 669, 693, 699, 705, 723, 729, 753, 759, 765, 783, 789,
      813, 819, 825, 843, 849, 873, 879, 885, 903, 909, 933, 939, 945,
      963, 981, 993 }

\* round(seconds / 60, 1), in tenths of a minute (lines 79-80)
minutes_tenths(seconds) ==
    LET q == (seconds * 10) \div 60
        r == (seconds * 10) % 60
    IN  IF r < 30 THEN q
        ELSE IF r > 30 THEN q + 1
        ELSE IF seconds \in TiesRoundedUp THEN q + 1 ELSE q

\* round(dist_m / 1609.34, 2), in hundredths of a mile (line 81); dist_cm is
\* the distance in hundredths of a metre.  No distance is halfway between two
\* hundredths of a mile: 100 * dist_cm = 80467 * (2k + 1) has no solution.
miles_hundredths(dist_cm) ==
    (dist_cm * 200 + METERS_PER_MILE_CM) \div (2 * METERS_PER_MILE_CM)

\* str() of a float held in tenths: "10.0", "8.3"
FloatStr1(t) == ToString(t \div 10) \o "." \o ToString(t % 10)

\* str() of a float held in hundredths: "10.0", "3.11", "3.05"
FloatStr2(h) ==
    ToString(h \div 100) \o "." \o
    (IF h % 10 = 0 THEN ToString((h % 100) \div 10)
     ELSE ToString((h % 100) \div 10) \o ToString(h % 10))

\* ------------------------------------------- answers of the routing service
AllKeys == {"duration", "staticDuration", "distanceMeters", "description"}

Route(keys, duration, staticDuration, dist_cm, description) ==
    [keys |-> keys, duration |-> duration, staticDuration |-> staticDuration,
     distanceMeters |-> dist_cm, description |-> description]

\* duration "600s", static duration "500s", 16093.4 m, "I-95 N"
RouteI95 ==
    Route(AllKeys, <<"6", "0", "0", "s">>, <<"5", "0", "0", "s">>, 1609340, "I-95 N")

\* duration "90s", static duration "123s", 1609.34 m, no description
RoutePike ==
    Route(AllKeys \ {"description"}, <<"9", "0", "s">>, <<"1", "2", "3", "s">>,
          160934, "")

\* duration "0.9s", static duration "", 5000 m
RouteZero == Route(AllKeys, <<"0", ".", "9", "s">>, <<>>, 500000, "Storrow Dr")

\* duration "12" (no unit), static duration "3s", 5000 m
RouteNoUnit == Route(AllKeys, <<"1", "2">>, <<"3", "s">>, 500000, "Storrow Dr")

\* duration "xs": a unit after a non-numeric part
RouteBadDuration ==
    Route(AllKeys, <<"x", "s">>, <<"5", "0", "0", "s">>, 1609340, "I-95 N")

\* static duration "s": a unit after nothing
RouteBadStatic ==
    Route(AllKeys, <<"6", "0", "0", "s">>, <<"s">>, 1609340, "I-95 N")

RouteLacking(key) ==
    Route(AllKeys \ {key}, <<"6", "0", "0", "s">>, <<"5", "0", "0", "s">>,
          1609340, "I-95 N")

\* net: "ok" when a response arrived, else the exception requests.post raised
\* json: "object" when the body is a JSON object, "invalid" when it is not JSON
Response(net, status, text, json, has_routes, routes) ==
    [net |-> net, status |-> status, text |-> text, json |-> json,
     has_routes |-> has_routes, routes |-> routes]

Answer(routes) == Response("ok", 200, "{routes}", "object", TRUE, routes)

NoResponse == Response("none", 0, "", "invalid", FALSE, <<>>)

Responses ==
    { Answer(<<RouteI95>>),
      Answer(<<RoutePike, RouteI95>>),
      Answer(<<RouteZero>>),
      Answer(<<RouteNoUnit>>),
      Answer(<<RouteBadDuration>>),
      Answer(<<RouteBadStatic>>),
      Answer(<<RouteLacking("duration")>>),
      Answer(<<RouteLacking("staticDuration")>>),
      Answer(<<RouteLacking("distanceMeters")>>),
      Answer(<<>>),
      Response("ok", 200, "{}", "object", FALSE, <<>>),
      Response("ok", 200, "<html>", "invalid", FALSE, <<>>),
      Response("ok", 304, "", "invalid", FALSE, <<>>),
      Response("ok", 403, "PERMISSION_DENIED", "object", FALSE, <<>>),
      Response("ok", 500, "INTERNAL", "object", FALSE, <<>>),
      Response("Timeout", 0, "", "invalid", FALSE, <<>>),
      Response("ConnectionError", 0, "", "invalid", FALSE, <<>>) }

\* response.raise_for_status() (line 48) raises HTTPError exactly for the
\* client-error and server-error status codes
raise_for_status(status) == 400 <= status /\ status < 600

\* routes_api_request (lines 25-49): the exception it raises ("" for none)
routes_api_request(resp) ==
    IF resp.net # "ok" THEN resp.net
    ELSE IF raise_for_status(resp.status) THEN "HTTPError"
    ELSE IF resp.json # "object" THEN "JSONDecodeError"
    ELSE ""

get_routes_last(resp) ==
    IF resp.has_routes /\ resp.routes # <<>>
    THEN <<resp.routes[Len(resp.routes)]>> ELSE <<>>

\* data.get("routes", []) (line 68)
get_routes(resp) == IF resp.has_routes THEN resp.routes ELSE <<>>

no_routes_never(routes) == FALSE

\* not routes (line 69)
no_routes(routes) == routes = <<>>

get_description_required(r) ==
    [raised |-> "description" \notin r.keys, value |-> r.description]

\* r.get("description", "") (line 77)
get_description(r) ==
    [raised |-> FALSE,
     value |-> IF "description" \in r.keys THEN r.description ELSE ""]

\* ------------------------------------------------------------ the console
Printed(kind, args) == [kind |-> kind, args |-> args]

response_is_truthy(resp) == resp.net = "ok" /\ resp.status < 400

\* e.response is not None (line 107)
response_is_not_None(resp) == resp.net = "ok"

except_handler_no_else(exc, resp) ==
    (IF exc = "HTTPError" /\ resp.net = "ok"
     THEN << Printed("http_status", <<ToString(resp.status)>>),
             Printed("http_text", <<resp.text>>) >>
     ELSE <<>>) \o << Printed("traceback", <<exc>>) >>

\* the except clause of lines 105-111, for exception exc of a request that
\* was answered with resp
except_handler(exc, resp) ==
    IF exc = "HTTPError" /\ response_is_not_None(resp)
    THEN << Printed("http_status", <<ToString(resp.status)>>),
            Printed("http_text", <<resp.text>>) >>
    ELSE << Printed("traceback", <<exc>>) >>

\* ---------------------------------------------------------------- the row
\* the keys of the dict of lines 83-91, in insertion order
ROW_KEYS ==
    << "timestamp", "origin", "destination", "distance_mi", "eta_min",
       "freeflow_min", "route_description" >>

NoRow ==
    [timestamp |-> "", origin |-> "", destination |-> "", distance_mi |-> 0,
     eta_min |-> 0, freeflow_min |-> 0, route_description |-> ""]

\* the text csv and json write for the value of key k: str() of the floats,
\* the strings as they are
FieldText(r, k) ==
    CASE k = "distance_mi" -> FloatStr2(r.distance_mi)
      [] k = "eta_min" -> FloatStr1(r.eta_min)
      [] k = "freeflow_min" -> FloatStr1(r.freeflow_min)
      [] OTHER -> r[k]

\* csv.DictWriter(f, fieldnames=row.keys()).writeheader() (lines 95-97)
writeheader == ROW_KEYS

\* DictWriter.writerow(row) (line 98): the values in fieldnames order
writerow(r) == [i \in 1..Len(ROW_KEYS) |-> FieldText(r, ROW_KEYS[i])]

open_mode_w(lines) == <<>>

\* open(log_path, "a") (line 94) keeps what the file holds
open_mode_a(lines) == lines

header_always(exists) == TRUE

exists_negation_dropped(exists) == exists

\* not os.path.exists(log_path) (line 93)
not_exists(exists) == ~exists

\* ------------------------------------------------------------ the program
Init ==
    /\ file_exists = FALSE
    /\ file_lines = <<>>
    /\ pc = [p \in Procs |-> "idle"]
    /\ local_time = [p \in Procs |-> NoTime]
    /\ data = [p \in Procs |-> NoResponse]
    /\ row = [p \in Procs |-> NoRow]
    /\ write_header = [p \in Procs |-> FALSE]
    /\ console = [p \in Procs |-> <<>>]
    /\ http_calls = [p \in Procs |-> 0]
    /\ exit_status = [p \in Procs |-> -1]
    /\ runs = 0
    /\ logged = 0
    /\ absent_seen = 0
    /\ lines0 = [p \in Procs |-> <<>>]
    /\ exists0 = [p \in Procs |-> FALSE]

\* the invocation prints out and ends: log_eta returned, or the except clause
\* ran; the script then falls off its end
Finish(p, out) ==
    /\ console' = [console EXCEPT ![p] = console[p] \o out]
    /\ pc' = [pc EXCEPT ![p] = "done"]
    /\ exit_status' = [exit_status EXCEPT ![p] = 0]

\* lines 102-104 and 57-65: a new invocation reads the clock and passes or
\* fails the window gate
Start(p, t) ==
    /\ pc[p] = "idle"
    /\ runs' = runs + 1
    /\ local_time' = [local_time EXCEPT ![p] = t]
    /\ lines0' = [lines0 EXCEPT ![p] = file_lines]
    /\ exists0' = [exists0 EXCEPT ![p] = file_exists]
    /\ IF within_window(t)
       THEN /\ pc' = [pc EXCEPT ![p] = "fetch"]
            /\ UNCHANGED <<console, exit_status>>
       ELSE Finish(p, << Printed("skip", <<HHMM(t)>>) >>)
    /\ UNCHANGED <<file_exists, file_lines, data, row, write_header,
                   http_calls, logged, absent_seen>>

\* an invocation starts while no other is running
StartAlone(p) ==
    /\ \A q \in Procs : pc[q] = "idle"
    /\ runs < MaxRuns
    /\ \E t \in Times : Start(p, t)

\* an invocation starts whatever the others are doing
StartOverlapping(p) ==
    /\ runs < MaxConcRuns
    /\ \E t \in Times : Start(p, t)

\* lines 67-71: the request, and the choice of the routes
Fetch(p, resp) ==
    /\ pc[p] = "fetch"
    /\ http_calls' = [http_calls EXCEPT ![p] = http_calls[p] + 1]
    /\ data' = [data EXCEPT ![p] = resp]
    /\ LET exc == routes_api_request(resp)
       IN  IF exc # "" THEN Finish(p, except_handler(exc, resp))
           ELSE IF no_routes(get_routes(resp))
           THEN Finish(p, << Printed("no_routes", <<>>) >>)
           ELSE /\ pc' = [pc EXCEPT ![p] = "convert"]
                /\ UNCHANGED <<console, exit_status>>
    /\ UNCHANGED <<file_exists, file_lines, local_time, row, write_header,
                   runs, logged, absent_seen, lines0, exists0>>

\* lines 73-91: parsing and conversion of the first route, and the row
Convert(p) ==
    /\ pc[p] = "convert"
    /\ LET rs  == get_routes(data[p])
           r   == rs[1]
           d   == format_duration(r.duration)
           s   == format_duration(r.staticDuration)
           g   == get_description(r)
           exc == IF rs = <<>> THEN "IndexError"
                  ELSE IF "duration" \notin r.keys THEN "KeyError"
                  ELSE IF d.raised THEN "ValueError"
                  ELSE IF "staticDuration" \notin r.keys THEN "KeyError"
                  ELSE IF s.raised THEN "ValueError"
                  ELSE IF "distanceMeters" \notin r.keys THEN "KeyError"
                  ELSE IF g.raised THEN "KeyError"
                  ELSE ""
       IN  IF exc # ""
           THEN /\ Finish(p, except_handler(exc, data[p]))
                /\ UNCHANGED row
           ELSE /\ row' = [row EXCEPT ![p] =
                      [timestamp |-> isoformat(local_time[p]),
                       origin |-> ORIGIN,
                       destination |-> DESTINATION,
                       distance_mi |-> miles_hundredths(r.distanceMeters),
                       eta_min |-> minutes_tenths(d.value),
                       freeflow_min |-> minutes_tenths(s.value),
                       route_description |-> g.value]]
                /\ pc' = [pc EXCEPT ![p] = "exists"]
                /\ UNCHANGED <<console, exit_status>>
    /\ UNCHANGED <<file_exists, file_lines, local_time, data, write_header,
                   http_calls, runs, logged, absent_seen, lines0, exists0>>

\* line 93
CheckExists(p) ==
    /\ pc[p] = "exists"
    /\ write_header' = [write_header EXCEPT ![p] = not_exists(file_exists)]
    /\ absent_seen' = IF file_exists THEN absent_seen ELSE absent_seen + 1
    /\ pc' = [pc EXCEPT ![p] = "open"]
    /\ UNCHANGED <<file_exists, file_lines, local_time, data, row, console,
                   http_calls, exit_status, runs, logged, lines0, exists0>>

\* line 94: the file is created when absent
Open(p) ==
    /\ pc[p] = "open"
    /\ file_exists' = TRUE
    /\ file_lines' = open_mode_a(file_lines)
    /\ pc' = [pc EXCEPT ![p] = "write"]
    /\ UNCHANGED <<local_time, data, row, write_header, console, http_calls,
                   exit_status, runs, logged, absent_seen, lines0, exists0>>

\* lines 95-100: the header and the row go to the file object's buffer, the
\* end of the with block flushes the buffer to the end of the file in one
\* write, and the summary is printed
WriteRow(p) ==
    /\ pc[p] = "write"
    /\ file_lines' = file_lines
                       \o (IF write_header[p] THEN <<writeheader>> ELSE <<>>)
                       \o <<writerow(row[p])>>
    /\ logged' = logged + 1
    /\ Finish(p, << Printed("summary", writerow(row[p])) >>)
    /\ UNCHANGED <<file_exists, local_time, data, row, write_header,
                   http_calls, runs, absent_seen, lines0, exists0>>

\* the operating system reclaims an ended invocation
Exit(p) ==
    /\ pc[p] = "done"
    /\ pc' = [pc EXCEPT ![p] = "idle"]
    /\ local_time' = [local_time EXCEPT ![p] = NoTime]
    /\ data' = [data EXCEPT ![p] = NoResponse]
    /\ row' = [row EXCEPT ![p] = NoRow]
    /\ write_header' = [write_header EXCEPT ![p] = FALSE]
    /\ console' = [console EXCEPT ![p] = <<>>]
    /\ http_calls' = [http_calls EXCEPT ![p] = 0]
    /\ exit_status' = [exit_status EXCEPT ![p] = -1]
    /\ lines0' = [lines0 EXCEPT ![p] = <<>>]
    /\ exists0' = [exists0 EXCEPT ![p] = FALSE]
    /\ UNCHANGED <<file_exists, file_lines, runs, logged, absent_seen>>

Step(p) ==
    \/ \E resp \in Responses : Fetch(p, resp)
    \/ Convert(p)
    \/ CheckExists(p)
    \/ Open(p)
    \/ WriteRow(p)
    \/ Exit(p)

\* invocations one at a time
Next == \E p \in Procs : StartAlone(p) \/ Step(p)

Spec == Init /\ [][Next]_vars

\* invocations that may overlap
NextOverlapping == \E p \in Procs : StartOverlapping(p) \/ Step(p)

SpecOverlapping == Init /\ [][NextOverlapping]_vars

\* ================================================================ claims
HeaderLine ==
    << "timestamp", "origin", "destination", "distance_mi", "eta_min",
       "freeflow_min", "route_description" >>

Quiet == \A p \in Procs : pc[p] \in {"idle", "done"}

Kinds(out) == [i \in 1..Len(out) |-> out[i].kind]

Ended(p, kind) ==
    pc[p] = "done" /\ console[p] # <<>> /\ console[p][1].kind = kind

FileUntouched(p) == file_lines = lines0[p] /\ file_exists = exists0[p]

NumHeaders(lines) == Cardinality({i \in 1..Len(lines) : lines[i] = HeaderLine})

Timestamps == {isoformat(t) : t \in Times}

Descriptions == {"", "I-95 N", "Storrow Dr"}

\* a record with the 7 fields in the fixed column order
IsDataLine(line) ==
    /\ Len(line) = 7
    /\ line[1] \in Timestamps
    /\ line[2] = ORIGIN
    /\ line[3] = DESTINATION
    /\ line[7] \in Descriptions
    /\ line # HeaderLine

\* C1: after any number N of invocations run one at a time from an absent
\* log, the file is absent when N = 0 appends were made, and otherwise is
\* one header line followed by exactly N data lines of 7 fields in the fixed
\* order; an invocation wrote the header exactly when it created the file.
C1_HeaderOnceThenRows ==
    /\ Quiet =>
         IF logged = 0 THEN ~file_exists /\ file_lines = <<>>
         ELSE /\ file_exists
              /\ Len(file_lines) = 1 + logged
              /\ file_lines[1] = HeaderLine
              /\ \A i \in 2..Len(file_lines) : IsDataLine(file_lines[i])
    /\ \A p \in Procs : Ended(p, "summary") => (write_header[p] <=> ~exists0[p])

\* two invocations in a row have appended: header, row, row, the second without a header
C1_Witness ==
    /\ Quiet
    /\ logged = 2
    /\ Len(file_lines) = 3
    /\ \E p \in Procs : Ended(p, "summary") /\ ~write_header[p]

\* C2: the gate lets an invocation run exactly when the hour h of its clock
\* reading satisfies 5 <= h < 20, and an invocation the gate stops prints the
\* skip notice and ends having made no request and no change to the log.
C2_WindowGate ==
    /\ \A h \in 0..23 : \A m \in {0, 59} :
          within_window([hour |-> h, minute |-> m]) <=> (5 <= h /\ h < 20)
    /\ \A p \in Procs : pc[p] # "idle" =>
          IF local_time[p].hour \in 5..19
          THEN ~Ended(p, "skip")
          ELSE /\ pc[p] = "done"
               /\ Kinds(console[p]) = <<"skip">>
               /\ http_calls[p] = 0
               /\ FileUntouched(p)

\* an invocation at 20:00 was skipped while the log held a header and a row
C2_Witness ==
    \E p \in Procs :
        /\ Ended(p, "skip")
        /\ local_time[p] = [hour |-> 20, minute |-> 0]
        /\ http_calls[p] = 0
        /\ Len(file_lines) = 2

\* C3: with overlapping invocations every existence check that finds the log
\* absent leads to a header line, whatever happened to the file between the
\* check and the append: the header lines in the file plus the invocations
\* still to flush one are as many as the checks that found the log absent
\* (so two checks before the first open give two header lines).
C3_HeaderPerAbsentCheck ==
    NumHeaders(file_lines)
      + Cardinality({p \in Procs : pc[p] \in {"open", "write"} /\ write_header[p]})
    = absent_seen

\* two overlapping invocations both found the log absent: header, row, header, row
C3_Witness ==
    /\ Quiet
    /\ NumHeaders(file_lines) = 2
    /\ Len(file_lines) = 4
    /\ file_lines[3] = HeaderLine

\* C4: every step of every invocation, whatever its outcome, leaves the log
\* append-only: the lines it held stay, unmodified and in place, its length
\* does not decrease, and an existing log stays in existence.
C4_AppendOnly ==
    [][ /\ Len(file_lines') >= Len(file_lines)
        /\ SubSeq(file_lines', 1, Len(file_lines)) = file_lines
        /\ (file_exists => file_exists') ]_vars

\* an invocation failed with a trace while the log held three lines
C4_Witness ==
    /\ Len(file_lines) = 3
    /\ \E p \in Procs : Ended(p, "traceback") /\ lines0[p] = file_lines

EmptyRouteList(resp) ==
    /\ resp.net = "ok"
    /\ resp.status = 200
    /\ resp.json = "object"
    /\ (~resp.has_routes \/ resp.routes = <<>>)

\* C5: an invocation answered successfully with an empty or missing route
\* list prints the "no routes" message and nothing else, and leaves the log
\* as it found it (same lines, or still absent).
C5_NoRoutes ==
    \A p \in Procs : (pc[p] \notin {"idle", "fetch"} /\ EmptyRouteList(data[p])) =>
        /\ pc[p] = "done"
        /\ Kinds(console[p]) = <<"no_routes">>
        /\ FileUntouched(p)

\* an answer without a route list ended an invocation while the log held two lines
C5_Witness ==
    \E p \in Procs :
        /\ Ended(p, "no_routes")
        /\ ~data[p].has_routes
        /\ Len(file_lines) = 2

ReportsStatus(p) ==
    /\ pc[p] = "done"
    /\ console[p] = << Printed("http_status", <<ToString(data[p].status)>>),
                      Printed("http_text", <<data[p].text>>) >>
    /\ FileUntouched(p)

\* C6 as stated: every answer with a status outside 200..299 is reported
\* with its status code and raw body, and the log is neither appended to nor
\* created.
C6_AnyNonSuccessStatus ==
    \A p \in Procs :
        (pc[p] \notin {"idle", "fetch"} /\ data[p].net = "ok"
           /\ data[p].status \notin 200..299) => ReportsStatus(p)

\* C6 amended: every answer with a client-error or server-error status
\* (400..599) is reported with its status code and raw body, and the log is
\* neither appended to nor created.
C6_ErrorStatus ==
    \A p \in Procs :
        (pc[p] \notin {"idle", "fetch"} /\ data[p].net = "ok"
           /\ data[p].status \in 400..599) => ReportsStatus(p)

\* a 403 answer was reported with its body and the log is still absent
C6_Witness ==
    \E p \in Procs :
        /\ Ended(p, "http_status")
        /\ data[p].status = 403
        /\ console[p][2].args = <<"PERMISSION_DENIED">>
        /\ ~file_exists

HasAllNumbers(r) == {"duration", "staticDuration", "distanceMeters"} \subseteq r.keys

\* C7 as stated: format_duration fails on no duration string, so every
\* invocation whose first route carries its duration, static duration and
\* distance writes its row and prints the summary.
C7_DurationNeverFails ==
    \A p \in Procs :
        (pc[p] = "done" /\ data[p].net = "ok" /\ data[p].status = 200
           /\ data[p].routes # <<>> /\ HasAllNumbers(data[p].routes[1])) =>
        /\ ~format_duration(data[p].routes[1].duration).raised
        /\ ~format_duration(data[p].routes[1].staticDuration).raised
        /\ Kinds(console[p]) = <<"summary">>

OutcomesAsStated ==
    { <<"skip">>, <<"summary">>, <<"http_status", "http_text">>, <<"traceback">> }

OnePass(p) ==
    /\ http_calls[p] <= 1
    /\ (pc[p] \notin {"idle", "done"} => ENABLED Step(p))
    /\ (pc[p] = "done" => exit_status[p] = 0)

\* C8 as stated: an invocation makes one pass and ends with status 0 having
\* printed exactly one of the skip notice, the summary, or an error
\* diagnostic (status and body, or a trace).
C8_ThreeOutcomes ==
    \A p \in Procs :
        /\ OnePass(p)
        /\ (pc[p] = "done" => Kinds(console[p]) \in OutcomesAsStated)

\* C8 amended: an invocation makes one pass (at most one request, never
\* stuck short of its end) and ends with status 0 having printed exactly one
\* of the skip notice, the "no routes" message, the summary, or an error
\* diagnostic (status and body, or a trace).
C8_FourOutcomes ==
    \A p \in Procs :
        /\ OnePass(p)
        /\ (pc[p] = "done" =>
              Kinds(console[p]) \in OutcomesAsStated \cup { <<"no_routes">> })

\* an invocation ended with the "no routes" message and status 0
C8_Witness == \E p \in Procs : Ended(p, "no_routes") /\ exit_status[p] = 0

\* the line the scenario of section 8 expects
LineI95(t) ==
    << isoformat(t), ORIGIN, DESTINATION, "10.0", "10.0", "8.3", "I-95 N" >>

\* C9: the row an invocation logs comes from the first route alone, its
\* minutes being the nearest tenth to seconds / 60 and its miles the nearest
\* hundredth to metres / 1609.34; "600s", "500s", 16093.4 m, "I-95 N" give
\* 10.0, 10.0, 8.3, "I-95 N", and 90 seconds give 1.5 minutes.
C9_RowFromFirstRoute ==
    \A p \in Procs : Ended(p, "summary") =>
        LET r    == data[p].routes[1]
            d    == format_duration(r.duration).value
            s    == format_duration(r.staticDuration).value
            line == file_lines[Len(file_lines)]
            off(a, b) == IF a >= b THEN a - b ELSE b - a
        IN  /\ 2 * off(6 * row[p].eta_min, d) <= 6
            /\ 2 * off(6 * row[p].freeflow_min, s) <= 6
            /\ 2 * off(160934 * row[p].distance_mi, 100 * r.distanceMeters) <= 160934
            /\ line = console[p][1].args
            /\ line[4] = FloatStr2(row[p].distance_mi)
            /\ line[5] = FloatStr1(row[p].eta_min)
            /\ line[6] = FloatStr1(row[p].freeflow_min)
            /\ (r = RouteI95 => line = LineI95(local_time[p]))
            /\ (r = RoutePike => line[4] = "1.0" /\ line[5] = "1.5" /\ line[7] = "")

\* the scenario of section 8: the first invocation logs the I-95 route to an absent log
C9_Witness ==
    \E p \in Procs :
        /\ Ended(p, "summary")
        /\ data[p].routes = <<RouteI95>>
        /\ ~exists0[p]
        /\ file_lines = << HeaderLine, LineI95(local_time[p]) >>

FailsBeforeOpen(resp) ==
    \/ resp.net \in {"Timeout", "ConnectionError"}
    \/ resp.net = "ok" /\ resp.status = 200 /\ resp.json = "invalid"
    \/ /\ resp.net = "ok" /\ resp.status = 200 /\ resp.json = "object"
       /\ resp.has_routes /\ resp.routes # <<>>
       /\ \/ ~HasAllNumbers(resp.routes[1])
          \/ resp.routes[1].duration \in {<<"x", "s">>, <<"s">>}
          \/ resp.routes[1].staticDuration \in {<<"x", "s">>, <<"s">>}

LacksOnlyDescription(resp) ==
    /\ resp.net = "ok" /\ resp.status = 200 /\ resp.json = "object"
    /\ resp.has_routes /\ resp.routes # <<>>
    /\ resp.routes[1].keys = AllKeys \ {"description"}

\* C10: the log is opened only after the fetch, the route selection and the
\* conversions are done: an invocation that has not reached the open has
\* left the log as it found it, one that fails at an earlier step (no
\* response, a body that is not JSON, a first route lacking a number, a
\* duration that does not convert) ends with a trace and the log as it found
\* it, and a first route lacking only its description is logged with an
\* empty route_description.
C10_FailuresLeaveLog ==
    \A p \in Procs :
        /\ pc[p] \in {"fetch", "convert", "exists", "open"} => FileUntouched(p)
        /\ Ended(p, "traceback") => FileUntouched(p)
        /\ (pc[p] = "done" /\ FailsBeforeOpen(data[p])) =>
              Kinds(console[p]) = <<"traceback">>
        /\ (pc[p] = "done" /\ LacksOnlyDescription(data[p])) =>
              /\ Kinds(console[p]) = <<"summary">>
              /\ file_lines[Len(file_lines)][7] = ""
              /\ file_lines[Len(file_lines)] = console[p][1].args

\* a duration that does not convert ended an invocation while the log held two lines
C10_Witness ==
    \E p \in Procs :
        /\ Ended(p, "traceback")
        /\ console[p][1].args = <<"ValueError">>
        /\ Len(file_lines) = 2
        /\ FileUntouched(p)

====
